---- MODULE Spec2Model ----
(***************************************************************************)
(* Model of pkg/rancher-desktop/config/settings.ts (src/unnamed/part_000): *)
(* the settings store (load / save / clear), the settings migration        *)
(* (updateTable, updateSettings), the deployment profile reader            *)
(* (readDeploymentProfiles, readProfileFiles, readRegistryUsingSchema,     *)
(* validateDeploymentProfile) and the command-line override parser         *)
(* (getUpdatableNode, updateFromCommandLine).                              *)
(*                                                                         *)
(* JavaScript values are tagged records [t, v]: t is the runtime type      *)
(* ("undefined", "null", "boolean", "number", "string", "object",          *)
(* "array") and v the payload. An object's payload is the function from    *)
(* its own property names to their values; an array's payload is           *)
(* [e |-> its elements, p |-> its named (non-index) properties].           *)
(***************************************************************************)
EXTENDS Integers, Sequences, FiniteSets, TLC

VARIABLES
  raw,         \* SpecMigrate: the decoded settings object handed to updateSettings
  mig,         \* SpecMigrate: outcome of updateSettings(raw)
  mig2,        \* SpecMigrate: outcome of updateSettings(result of the first call)
  parsedProfile, \* SpecValidate: the parsed profile handed to validateDeploymentProfile
  vres,        \* SpecValidate: outcome of validateDeploymentProfile(profile, defaultSettings)
  platform,    \* os.platform()
  systemRoot,  \* SpecProfiles: the system profile directory or the HKLM profile key
  userRoot,    \* SpecProfiles: the user profile directory or the HKCU profile key
  deploymentProfiles, \* outcome of readDeploymentProfiles()
  file,        \* the settings file, settings.json
  writable,    \* the settings directory and file can be written
  plainPath,   \* the path of the settings file reads as a regular expression
  calls,       \* the number of updateFromCommandLine calls so far
  settingsCache,  \* `let settings`: the cached settings of the process, undefined until loaded
  aliased,     \* the cached settings are the defaultSettings object itself, not a copy
  liveDefaults,   \* the defaultSettings object of the process
  isFirstRun,     \* `let _isFirstRun`
  noModalDialogs, \* TransientSettings.noModalDialogs
  last,        \* the last call: what it was and what it did
  argv,        \* SpecCommandLine: the command line of the process
  cli          \* SpecCommandLine: what updateFromCommandLine(load(), argv) did

varsMigrate == <<raw, mig, mig2>>
varsValidate == <<parsedProfile, vres>>
varsProfiles == <<platform, systemRoot, userRoot, deploymentProfiles>>
varsProcess == <<settingsCache, aliased, liveDefaults, isFirstRun, noModalDialogs>>
varsCommandLine == <<argv, cli>>
varsStore == <<file, writable, plainPath, calls, varsProcess, last, varsCommandLine>>
vars == <<varsMigrate, varsValidate, varsProfiles, varsStore>>

-----------------------------------------------------------------------------
(* JavaScript values *)

Undef == [t |-> "undefined", v |-> "undefined"]
Null == [t |-> "null", v |-> "null"]
B(b) == [t |-> "boolean", v |-> b]
N(n) == [t |-> "number", v |-> n]
S(s) == [t |-> "string", v |-> s]
O(f) == [t |-> "object", v |-> f]
A(elems, props) == [t |-> "array", v |-> [e |-> elems, p |-> props]]

NoProps == <<>>
EmptyObject == O(NoProps)
EmptyArray == A(<<>>, NoProps)

\* typeof x
TypeOf(x) == IF x.t \in {"null", "object", "array"} THEN "object" ELSE x.t

\* Array.isArray(x)
IsArray(x) == x.t = "array"

\* lodash isObject(x): a non-null value of typeof 'object'
IsObject(x) == x.t \in {"object", "array"}

\* x is undefined or null: reading or writing a property of it throws TypeError
IsNullish(x) == x.t \in {"undefined", "null"}

\* ToBoolean(x), as used by `!x` and `x || y`
Truthy(x) ==
  CASE x.t \in {"undefined", "null"} -> FALSE
    [] x.t = "boolean" -> x.v
    [] x.t = "number" -> x.v # 0
    [] x.t = "string" -> x.v # ""
    [] OTHER -> TRUE

\* the own named properties of an object or an array; a primitive has none
Props(x) ==
  CASE x.t = "object" -> x.v
    [] x.t = "array" -> x.v.p
    [] OTHER -> NoProps

\* Object.keys(x), index keys of an array left out
Keys(x) == DOMAIN Props(x)

\* `k in x` for an object or array x
HasKey(x, k) == k \in Keys(x)

\* x[k] for a non-nullish x: undefined when x has no such property
Get(x, k) == IF HasKey(x, k) THEN Props(x)[k] ELSE Undef

WithProps(x, f) ==
  IF x.t = "array" THEN A(x.v.e, f) ELSE O(f)

\* x[k] = val on an object or array x
Put(x, k, val) ==
  WithProps(x, [q \in Keys(x) \cup {k} |-> IF q = k THEN val ELSE Props(x)[q]])

\* delete x[k]: removes the property of an object or array, and does nothing
\* (without throwing) on a primitive
Delete(x, k) ==
  IF IsObject(x) THEN WithProps(x, [q \in Keys(x) \ {k} |-> Props(x)[q]]) ELSE x

RECURSIVE DeleteAll(_, _)
DeleteAll(x, ks) ==
  IF ks = <<>> THEN x ELSE DeleteAll(Delete(x, Head(ks)), Tail(ks))

\* x.a.b... along a path of property names, undefined as soon as a step is missing
RECURSIVE GetPath(_, _)
GetPath(x, path) ==
  IF path = <<>> THEN x
  ELSE IF IsObject(x) THEN GetPath(Get(x, Head(path)), Tail(path))
  ELSE Undef

-----------------------------------------------------------------------------
(* The compiled-in settings *)

CURRENT_SETTINGS_VERSION == 5

ContainerEngine == {"", "containerd", "moby"}

defaultSettings ==
  O([version |-> N(CURRENT_SETTINGS_VERSION),
     application |-> O([
       adminAccess |-> B(TRUE),
       debug |-> B(FALSE),
       pathManagementStrategy |-> S("notset"),
       telemetry |-> O([enabled |-> B(TRUE)]),
       updater |-> O([enabled |-> B(TRUE)])]),
     containerEngine |-> O([
       imageAllowList |-> O([
         enabled |-> B(FALSE),
         locked |-> B(FALSE),
         patterns |-> EmptyArray]),
       name |-> S("containerd")]),
     virtualMachine |-> O([
       memoryInGB |-> N(2),
       numberCPUs |-> N(2),
       hostResolver |-> B(TRUE)]),
     WSL |-> O([integrations |-> EmptyObject]),
     kubernetes |-> O([
       version |-> S(""),
       port |-> N(6443),
       enabled |-> B(TRUE),
       options |-> O([traefik |-> B(TRUE), flannel |-> B(TRUE)])]),
     portForwarding |-> O([includeKubernetesServices |-> B(FALSE)]),
     images |-> O([showAll |-> B(TRUE), namespace |-> S("k8s.io")]),
     diagnostics |-> O([showMuted |-> B(FALSE), mutedChecks |-> EmptyObject]),
     autoStart |-> B(FALSE),
     startInBackground |-> B(FALSE),
     hideNotificationIcon |-> B(FALSE),
     window |-> O([quitOnClose |-> B(FALSE)]),
     experimental |-> O([virtualMachine |-> O([socketVMNet |-> B(FALSE)])])])

-----------------------------------------------------------------------------
(* Outcome of a call: a returned value or a raised error *)

Return(val) == [ok |-> TRUE, val |-> val]
Throw(err) == [ok |-> FALSE, val |-> S(err)]

-----------------------------------------------------------------------------
(* Migration: updateTable and updateSettings *)

\* updateTable[1]: `'rancherMode' in settings.kubernetes` raises TypeError
\* unless settings.kubernetes is an object
updateTable1(settings) ==
  LET kubernetes == Get(settings, "kubernetes") IN
  IF ~IsObject(kubernetes) THEN Throw("TypeError")
  ELSE IF HasKey(kubernetes, "rancherMode")
       THEN Return(Put(settings, "kubernetes", Delete(kubernetes, "rancherMode")))
       ELSE Return(settings)

\* the keys updateTable[4] deletes from settings.kubernetes
KubernetesMoved ==
  <<"containerEngine", "experimental", "hostResolver", "checkForExistingKimBuilder",
    "memoryInGB", "numberCPUs", "suppressSudo", "WSLIntegrations">>

\* the top-level keys updateTable[4] deletes
TopLevelMoved == <<"debug", "pathManagementStrategy", "telemetry", "updater">>

\* updateTable[4], statement by statement. Reading a property of undefined or
\* null raises TypeError (lines 419, 430), and so does creating a property on
\* undefined, null or a primitive (line 432, strict mode).
updateTable4(settings) ==
  LET kubernetes == Get(settings, "kubernetes")
      kexperimental == Get(kubernetes, "experimental")
      containerEngine == Get(settings, "containerEngine")
      application == O([
        adminAccess |-> B(~Truthy(Get(kubernetes, "suppressSudo"))),
        debug |-> Get(settings, "debug"),
        pathManagementStrategy |-> Get(settings, "pathManagementStrategy"),
        telemetry |-> O([enabled |-> Get(settings, "telemetry")]),
        updater |-> O([enabled |-> Get(settings, "updater")])])
      virtualMachine == O([
        hostResolver |-> Get(kubernetes, "hostResolver"),
        memoryInGB |-> Get(kubernetes, "memoryInGB"),
        numberCPUs |-> Get(kubernetes, "numberCPUs")])
      experimental ==
        O([virtualMachine |-> O([socketVMNet |-> Get(kexperimental, "socketVMNet")])])
      WSL == O([integrations |-> Get(kubernetes, "WSLIntegrations")])
      s1 == Put(settings, "application", application)
      s2 == Put(s1, "virtualMachine", virtualMachine)
      s3 == Put(s2, "experimental", experimental)
      s4 == Put(s3, "WSL", WSL)
      s5 == Put(s4, "containerEngine",
                Put(containerEngine, "name", Get(kubernetes, "containerEngine")))
      s6 == Put(s5, "kubernetes", DeleteAll(kubernetes, KubernetesMoved))
  IN
  IF IsNullish(kubernetes) THEN Throw("TypeError")
  ELSE IF IsNullish(kexperimental) THEN Throw("TypeError")
  ELSE IF ~IsObject(containerEngine) THEN Throw("TypeError")
  ELSE Return(DeleteAll(s6, TopLevelMoved))

\* updateTable[v] is registered
HasStep(v) == v \in 1..4

\* updateTable[v](settings); the entries 2 and 3 do nothing
updateTable(v, settings) ==
  CASE v = 1 -> updateTable1(settings)
    [] v = 4 -> updateTable4(settings)
    [] OTHER -> Return(settings)

\* the loop of updateSettings from loadedVersion up; steps collects the
\* versions whose entry ran
RECURSIVE RunSteps(_, _, _)
RunSteps(settings, loadedVersion, steps) ==
  IF loadedVersion >= CURRENT_SETTINGS_VERSION
  THEN [ok |-> TRUE, val |-> settings, steps |-> steps]
  ELSE IF HasStep(loadedVersion)
       THEN LET r == updateTable(loadedVersion, settings) IN
            IF r.ok
            THEN RunSteps(r.val, loadedVersion + 1, Append(steps, loadedVersion))
            ELSE [ok |-> FALSE, val |-> r.val, steps |-> Append(steps, loadedVersion)]
       ELSE RunSteps(settings, loadedVersion + 1, steps)

\* _.defaultsDeep(object, source): every key of source that is undefined in
\* object is filled with a copy of the source value; where both hold an
\* object or array the merge recurses; any other value of object is kept.
\* (The arrays of defaultSettings are empty, so there are no index keys to merge.)
RECURSIVE defaultsDeep(_, _)
defaultsDeep(object, source) ==
  LET merged(k) ==
        LET objValue == Get(object, k)
            srcValue == Props(source)[k]
        IN IF IsObject(srcValue)
           THEN IF IsObject(objValue) THEN defaultsDeep(objValue, srcValue)
                ELSE IF objValue = Undef
                     THEN defaultsDeep(IF IsArray(srcValue) THEN EmptyArray ELSE EmptyObject,
                                       srcValue)
                     ELSE objValue
           ELSE IF objValue = Undef THEN srcValue ELSE objValue
  IN WithProps(object,
       [k \in Keys(object) \cup Keys(source) |->
          IF k \in Keys(source) THEN merged(k) ELSE Props(object)[k]])

\* the loop started from 0 whatever version the file states
noLoadedVersion(settings) == 0

\* `settings.version || 0` as the number the loop starts from
LoadedVersion(settings) ==
  LET version == Get(settings, "version") IN
  CASE ~Truthy(version) -> 0
    [] version.t = "number" -> version.v

\* updateSettings without line 468: the version of the file is left as it was
updateSettingsKeepsVersion(settings, dflt) ==
  IF Keys(settings) = {}
  THEN [ok |-> TRUE, val |-> dflt, steps |-> <<>>, alias |-> TRUE]
  ELSE LET r == RunSteps(settings, LoadedVersion(settings), <<>>) IN
       IF ~r.ok
       THEN [ok |-> FALSE, val |-> r.val, steps |-> r.steps, alias |-> FALSE]
       ELSE [ok |-> TRUE, val |-> defaultsDeep(r.val, dflt), steps |-> r.steps,
             alias |-> FALSE]

\* updateSettings(settings), with dflt the current defaultSettings object.
\* alias tells that the returned object is defaultSettings itself (line 452).
updateSettings(settings, dflt) ==
  IF Keys(settings) = {}
  THEN [ok |-> TRUE, val |-> dflt, steps |-> <<>>, alias |-> TRUE]
  ELSE LET r == RunSteps(settings, LoadedVersion(settings), <<>>) IN
       IF ~r.ok
       THEN [ok |-> FALSE, val |-> r.val, steps |-> r.steps, alias |-> FALSE]
       ELSE [ok |-> TRUE,
             val |-> defaultsDeep(Put(r.val, "version", N(CURRENT_SETTINGS_VERSION)), dflt),
             steps |-> r.steps,
             alias |-> FALSE]

-----------------------------------------------------------------------------
(* Deployment profiles: validateDeploymentProfile *)

\* `key in schema`: an own property, or the length of an array
In(schema, key) == HasKey(schema, key) \/ (IsArray(schema) /\ key = "length")

\* schema[key] for a key that is `in` schema
SchemaGet(schema, key) ==
  IF HasKey(schema, key) THEN Props(schema)[key] ELSE N(Len(schema.v.e))

\* line 617 as written: Array.isArray(profile[key] !== Array.isArray(schema[key])),
\* Array.isArray applied to the boolean result of the comparison
ArrayTypeMismatch(profileValue, schemaValue) ==
  IsArray(B(\/ profileValue.t # "boolean"
            \/ profileValue.v # IsArray(schemaValue)))

\* validateDeploymentProfile(profile, schema) for an undefined, null or object
\* profile. Object.keys(null) raises TypeError; an error raised for any key
\* leaves forEach and the call.
RECURSIVE validateDeploymentProfile(_, _)
validateDeploymentProfile(profile, schema) ==
  IF profile = Undef THEN Return(profile)
  ELSE IF IsNullish(profile) THEN Throw("TypeError")
  ELSE
    LET typesAgree(key) ==
          TypeOf(Props(profile)[key]) = TypeOf(SchemaGet(schema, key))
        recursed(key) ==
          /\ In(schema, key)
          /\ typesAgree(key)
          /\ TypeOf(Props(profile)[key]) = "object"
          /\ ~ArrayTypeMismatch(Props(profile)[key], SchemaGet(schema, key))
          /\ ~IsArray(Props(profile)[key])
        deleted(key) ==
          \/ ~In(schema, key)
          \/ ~typesAgree(key)
          \/ /\ TypeOf(Props(profile)[key]) = "object"
             /\ ArrayTypeMismatch(Props(profile)[key], SchemaGet(schema, key))
        sub == [key \in {k \in Keys(profile) : recursed(k)} |->
                  validateDeploymentProfile(Props(profile)[key], SchemaGet(schema, key))]
    IN IF \E key \in DOMAIN sub : ~sub[key].ok
       THEN Throw("TypeError")
       ELSE Return(WithProps(profile,
              [key \in {k \in Keys(profile) : ~deleted(k)} |->
                 IF key \in DOMAIN sub THEN sub[key].val ELSE Props(profile)[key]]))

-----------------------------------------------------------------------------
(* Deployment profiles: the readers *)

\* An artifact is one profile of one root: a file of a profile directory, or
\* the Defaults / Locked subtree of a registry hive. kind is "absent", "bad"
\* (it exists and reading or parsing it raises) or "ok"; v is the parsed file
\* content, or the registry subtree as nested keys over registry values
\* (REG_DWORD a number, REG_SZ a string, REG_MULTI_SZ an array of strings).
Absent == [kind |-> "absent", v |-> Undef]
Bad == [kind |-> "bad", v |-> Undef]
Ok(val) == [kind |-> "ok", v |-> val]

\* nativeReg.getValue(regKey, regPath, schemaKey) under the subtree reg: null
\* when there is no such value
getValue(reg, schemaKey) ==
  LET found == Get(reg, schemaKey) IN
  IF found.t \in {"undefined", "object"} THEN Null ELSE found

\* readRegistryUsingSchema(null, schemaObj, regKey, regPath), reg being the
\* registry subtree at regPath
RECURSIVE readRegistryUsingSchema(_, _)
readRegistryUsingSchema(schemaObj, reg) ==
  LET regValue(schemaKey) ==
        LET schemaVal == Props(schemaObj)[schemaKey] IN
        IF TypeOf(schemaVal) = "object" /\ ~IsArray(schemaVal)
        THEN readRegistryUsingSchema(schemaVal,
               IF Get(reg, schemaKey).t = "object" THEN Get(reg, schemaKey)
               ELSE EmptyObject)
        ELSE getValue(reg, schemaKey)
      stored(schemaKey) ==
        IF TypeOf(Props(schemaObj)[schemaKey]) = "boolean"
        THEN IF TypeOf(regValue(schemaKey)) = "number"
             THEN B(regValue(schemaKey).v # 0)
             ELSE B(FALSE)
        ELSE regValue(schemaKey)
      found == {schemaKey \in Keys(schemaObj) : ~IsNullish(regValue(schemaKey))}
  IN IF found = {} THEN Undef ELSE O([schemaKey \in found |-> stored(schemaKey)])

\* one hive of the win32 loop: the try block of lines 497-506 applied to the
\* profiles read so far. An error raised while reading Defaults skips the
\* read of Locked; an error of either read is logged and swallowed.
readRegistryKey(profiles, root) ==
  IF ~root.exists THEN profiles
  ELSE IF root.defaults.kind = "bad" THEN profiles
  ELSE LET defaults == IF root.defaults.kind = "absent" THEN Undef
                       ELSE readRegistryUsingSchema(defaultSettings, root.defaults.v)
       IN IF root.locked.kind = "bad"
          THEN [profiles EXCEPT !.defaults = defaults]
          ELSE [defaults |-> defaults,
                locked |-> IF root.locked.kind = "absent" THEN Undef
                           ELSE readRegistryUsingSchema(defaultSettings, root.locked.v)]

\* readProfileFiles(rootPath, defaultsPath, lockedPath, parser): any error of
\* the defaults file is swallowed; an error of the locked file other than
\* ENOENT is raised
readProfileFiles(root) ==
  IF root.exists /\ root.locked.kind = "bad"
  THEN [ok |-> FALSE, defaults |-> Undef, locked |-> Undef]
  ELSE [ok |-> TRUE,
        defaults |-> IF root.exists /\ root.defaults.kind = "ok"
                     THEN root.defaults.v ELSE Undef,
        locked |-> IF root.exists /\ root.locked.kind = "ok"
                   THEN root.locked.v ELSE Undef]

Defined(profiles) == profiles.defaults # Undef \/ profiles.locked # Undef

NoProfiles == [defaults |-> Undef, locked |-> Undef]

\* x ?? {}
OrEmptyObject(x) == IF IsNullish(x) THEN EmptyObject ELSE x

\* lines 532-535: both profiles validated against defaultSettings
validated(profiles, consulted) ==
  LET defaults == validateDeploymentProfile(profiles.defaults, defaultSettings)
      locked == validateDeploymentProfile(profiles.locked, defaultSettings)
  IN IF defaults.ok /\ locked.ok
     THEN [ok |-> TRUE, defaults |-> OrEmptyObject(defaults.val),
           locked |-> OrEmptyObject(locked.val), consulted |-> consulted]
     ELSE [ok |-> FALSE, defaults |-> Undef, locked |-> Undef, consulted |-> consulted]

\* the win32 case of readDeploymentProfiles: HKLM, then HKCU unless HKLM gave
\* a profile
readProfilesWin32(system, user) ==
  LET first == readRegistryKey(NoProfiles, system) IN
  IF Defined(first) THEN validated(first, <<"system">>)
  ELSE validated(readRegistryKey(first, user), <<"system", "user">>)

\* the linux and darwin cases of readDeploymentProfiles: what readProfileFiles
\* returns is bound to a `const profiles` of the loop body, which decides the
\* break and is then dropped; the profiles of line 487 stay undefined
readProfilesFiles(system, user) ==
  LET first == readProfileFiles(system)
      second == readProfileFiles(user)
  IN IF ~first.ok
     THEN [ok |-> FALSE, defaults |-> Undef, locked |-> Undef,
           consulted |-> <<"system">>]
     ELSE IF Defined(first) THEN validated(NoProfiles, <<"system">>)
     ELSE IF ~second.ok
     THEN [ok |-> FALSE, defaults |-> Undef, locked |-> Undef,
           consulted |-> <<"system", "user">>]
     ELSE validated(NoProfiles, <<"system", "user">>)

\* readDeploymentProfiles() on a platform with the two roots as found
readDeploymentProfiles(osPlatform, system, user) ==
  IF osPlatform = "win32" THEN readProfilesWin32(system, user)
  ELSE readProfilesFiles(system, user)

-----------------------------------------------------------------------------
(* The variables of a specification that does not use them *)

NotValidated == [ok |-> FALSE, val |-> S("not called")]

IdleValidate ==
  /\ parsedProfile = Undef
  /\ vres = NotValidated

AbsentRoot == [exists |-> FALSE, defaults |-> Absent, locked |-> Absent]

NotRead == [ok |-> FALSE, defaults |-> Undef, locked |-> Undef, consulted |-> <<>>]

IdleProfiles ==
  /\ platform = "linux"
  /\ systemRoot = AbsentRoot
  /\ userRoot = AbsentRoot
  /\ deploymentProfiles = NotRead

NoCall ==
  [op |-> "none", ok |-> TRUE, raisedIn |-> "", read |-> FALSE, wrote |-> FALSE,
   dialog |-> FALSE]

\* a process that has just started
FreshProcess ==
  /\ settingsCache = Undef
  /\ aliased = FALSE
  /\ liveDefaults = defaultSettings
  /\ isFirstRun = FALSE
  /\ noModalDialogs = FALSE
  /\ last = NoCall

\* updateFromCommandLine(load(), argv) not called
NotParsed ==
  [called |-> FALSE, before |-> Undef, firstRunBefore |-> FALSE, fileBefore |-> Undef,
   raisedIn |-> "", log |-> <<>>]

IdleCommandLine ==
  /\ argv = <<>>
  /\ cli = NotParsed

IdleStore ==
  /\ file = [kind |-> "absent", v |-> Undef]
  /\ writable = TRUE
  /\ plainPath = TRUE
  /\ calls = 0
  /\ FreshProcess
  /\ IdleCommandLine

-----------------------------------------------------------------------------
(* SpecMigrate: updateSettings applied to decoded settings files *)

MaxVersion == 6

\* an object literal from optional parts
Merge(f, g) ==
  [k \in DOMAIN f \cup DOMAIN g |-> IF k \in DOMAIN g THEN g[k] ELSE f[k]]

\* the property k: val, or no property when val is undefined
Opt(k, val) == IF val = Undef THEN NoProps ELSE [q \in {k} |-> val]

RawVersions == {Undef} \cup {N(n) : n \in 0..MaxVersion}

RawKubernetes ==
  { Undef, Null, N(7), EmptyArray, EmptyObject,
    O([rancherMode |-> B(TRUE), version |-> S("1.25.4")]),
    O([containerEngine |-> S("moby"), suppressSudo |-> B(TRUE)]),
    O([containerEngine |-> S("moby"), suppressSudo |-> B(TRUE),
       experimental |-> O([socketVMNet |-> B(TRUE)]),
       memoryInGB |-> N(4), version |-> S("1.25.4")]),
    O([containerEngine |-> S("containerd"), suppressSudo |-> B(FALSE),
       experimental |-> EmptyObject, WSLIntegrations |-> O([Ubuntu |-> B(TRUE)])]),
    O([version |-> S("1.25.4"), enabled |-> B(FALSE)]) }

RawContainerEngine ==
  { Undef, S("moby"), EmptyObject, EmptyArray,
    O([name |-> S("moby")]),
    O([name |-> S("frobnicate"),
       imageAllowList |-> O([enabled |-> B(TRUE)])]) }

RawLegacy ==
  { NoProps,
    [debug |-> B(TRUE), telemetry |-> B(FALSE), updater |-> B(TRUE),
     pathManagementStrategy |-> S("rcfiles")] }

\* the decoded settings files the model draws from: every combination of a
\* version, a kubernetes section, a containerEngine section and the top-level
\* keys of version 4, each present or absent (all absent: the empty object)
RawInputs ==
  { O(Merge(Merge(Merge(Opt("version", ver), Opt("kubernetes", k)),
                  Opt("containerEngine", ce)), legacy)) :
      ver \in RawVersions, k \in RawKubernetes,
      ce \in RawContainerEngine, legacy \in RawLegacy }

NotCalled == [ok |-> FALSE, val |-> S("not called"), steps |-> <<>>, alias |-> FALSE]

IdleMigrate ==
  /\ raw = EmptyObject
  /\ mig = NotCalled
  /\ mig2 = NotCalled

InitMigrate ==
  /\ raw \in RawInputs
  /\ mig = NotCalled
  /\ mig2 = NotCalled
  /\ IdleValidate
  /\ IdleProfiles
  /\ IdleStore

\* updateSettings(raw)
Migrate ==
  /\ mig = NotCalled
  /\ mig' = updateSettings(raw, defaultSettings)
  /\ UNCHANGED <<raw, mig2, varsValidate, varsProfiles, varsStore>>

\* updateSettings(updateSettings(raw)), when the first call returned
MigrateAgain ==
  /\ mig.ok
  /\ mig2 = NotCalled
  /\ mig2' = updateSettings(mig.val, defaultSettings)
  /\ UNCHANGED <<raw, mig, varsValidate, varsProfiles, varsStore>>

NextMigrate == Migrate \/ MigrateAgain

SpecMigrate == InitMigrate /\ [][NextMigrate]_vars

-----------------------------------------------------------------------------
(* SpecValidate: validateDeploymentProfile applied to parsed profiles *)

ProfileKubernetes ==
  { Undef, Null, N(3), EmptyArray, A(<<S("a")>>, NoProps),
    O([enabled |-> B(FALSE)]),
    O([version |-> A(<<S("strawberries"), S("limes")>>, NoProps)]),
    O([version |-> S("1.25.4"), bogus |-> N(1)]),
    O([options |-> Null]),
    O([options |-> O([traefik |-> S("yes"), flannel |-> B(FALSE),
                      extra |-> O([deep |-> N(1)])])]) }

ProfileContainerEngine ==
  { Undef, S("moby"),
    O([name |-> S("moby")]),
    O([imageAllowList |-> O([patterns |-> A(<<S("a")>>, NoProps)])]),
    O([imageAllowList |-> O([patterns |-> O([length |-> N(1), x |-> N(2)])])]),
    O([imageAllowList |-> O([patterns |-> Null, enabled |-> B(TRUE)])]) }

ProfileOthers ==
  { NoProps,
    [unknownKey |-> O([nested |-> O([deeper |-> B(TRUE)])])],
    [version |-> S("5")],
    [autoStart |-> B(TRUE), WSL |-> O([integrations |-> O([Ubuntu |-> B(TRUE)])])] }

\* the parsed profiles the model draws from: no profile, null, and every
\* combination of a kubernetes section, a containerEngine section and other
\* top-level keys
ProfileInputs ==
  {Undef, Null} \cup
  { O(Merge(Merge(Opt("kubernetes", k), Opt("containerEngine", ce)), others)) :
      k \in ProfileKubernetes, ce \in ProfileContainerEngine, others \in ProfileOthers }

InitValidate ==
  /\ parsedProfile \in ProfileInputs
  /\ vres = NotValidated
  /\ IdleMigrate
  /\ IdleProfiles
  /\ IdleStore

\* validateDeploymentProfile(parsedProfile, defaultSettings)
Validate ==
  /\ vres = NotValidated
  /\ vres' = validateDeploymentProfile(parsedProfile, defaultSettings)
  /\ UNCHANGED <<parsedProfile, varsMigrate, varsProfiles, varsStore>>

NextValidate == Validate

SpecValidate == InitValidate /\ [][NextValidate]_vars

-----------------------------------------------------------------------------
(* SpecProfiles: readDeploymentProfiles over the profile roots *)

Platforms == {"win32", "linux", "darwin"}

\* what a profile file may hold
FileArtifacts ==
  { Absent, Bad,
    Ok(O([kubernetes |-> O([enabled |-> B(FALSE)])])),
    Ok(O([containerEngine |-> O([name |-> S("moby")]), bogus |-> N(1)])) }

\* what a Defaults or Locked registry subtree may hold
RegistryArtifacts ==
  { Absent, Bad,
    Ok(O([kubernetes |-> O([enabled |-> N(0)])])),
    Ok(O([containerEngine |-> O([name |-> S("moby")]), bogus |-> N(1)])) }

Artifacts(osPlatform) ==
  IF osPlatform = "win32" THEN RegistryArtifacts ELSE FileArtifacts

\* a root that does not exist holds nothing
Roots(osPlatform) ==
  {AbsentRoot} \cup
  { [exists |-> TRUE, defaults |-> d, locked |-> l] :
      d \in Artifacts(osPlatform), l \in Artifacts(osPlatform) }

InitProfiles ==
  /\ platform \in Platforms
  /\ systemRoot \in Roots(platform)
  /\ userRoot \in Roots(platform)
  /\ deploymentProfiles = NotRead
  /\ IdleMigrate
  /\ IdleValidate
  /\ IdleStore

\* readDeploymentProfiles()
ReadDeploymentProfiles ==
  /\ deploymentProfiles = NotRead
  /\ deploymentProfiles' = readDeploymentProfiles(platform, systemRoot, userRoot)
  /\ UNCHANGED <<platform, systemRoot, userRoot, varsMigrate, varsValidate, varsStore>>

NextProfiles == ReadDeploymentProfiles

SpecProfiles == InitProfiles /\ [][NextProfiles]_vars

-----------------------------------------------------------------------------
(* The settings file: JSON.stringify, JSON.parse, save, loadFromDisk, load *)

\* JSON.parse(JSON.stringify(x)): what is read back from the text written for
\* x. A property holding undefined is not written; of an array only the
\* elements are written (undefined as null), its named properties are not.
RECURSIVE stringify(_)
stringify(x) ==
  CASE x.t = "object" ->
         O([k \in {q \in Keys(x) : Props(x)[q] # Undef} |-> stringify(Props(x)[k])])
    [] x.t = "array" ->
         A([i \in DOMAIN x.v.e |->
              IF x.v.e[i] = Undef THEN Null ELSE stringify(x.v.e[i])], NoProps)
    [] OTHER -> x

\* The settings file. kind is "absent" (ENOENT), "unreadable" (any other read
\* error), "empty" or "corrupt" (JSON.parse raises) or "json" (v is the value
\* JSON.parse returns).
NoFile == [kind |-> "absent", v |-> Undef]
UnreadableFile == [kind |-> "unreadable", v |-> Undef]
EmptyFile == [kind |-> "empty", v |-> Undef]
CorruptFile == [kind |-> "corrupt", v |-> Undef]
JsonFile(val) == [kind |-> "json", v |-> val]

\* a comparison that finds every migrated object changed
neverEqual(a, b) == FALSE

\* _.isEqual(a, b): objects by their keys and values, arrays by their elements
RECURSIVE isEqual(_, _)
isEqual(a, b) ==
  IF a.t # b.t THEN FALSE
  ELSE CASE a.t = "object" ->
              /\ Keys(a) = Keys(b)
              /\ \A k \in Keys(a) : isEqual(Props(a)[k], Props(b)[k])
         [] a.t = "array" ->
              /\ Len(a.v.e) = Len(b.v.e)
              /\ \A i \in DOMAIN a.v.e : isEqual(a.v.e[i], b.v.e[i])
         [] OTHER -> a = b

\* The disk as save() meets it: writable tells that mkdirSync and
\* writeFileSync succeed; plainPath tells that the text of err.path, spliced
\* unescaped into the pattern of line 369, is a well-formed regular expression
\* (it is not when the path holds an unbalanced '(' or '[').
AnyDisk(canWrite, pathIsPlain) == [writable |-> canWrite, plainPath |-> pathIsPlain]
GoodDisk == AnyDisk(TRUE, TRUE)

\* parseSaveError(err) for the error of a failed write: the friendlier message,
\* or the SyntaxError of `new RegExp`
parseSaveError(disk) ==
  IF disk.plainPath THEN Return(S("Error trying to write")) ELSE Throw("SyntaxError")

\* save(cfg) with the file as it is: the writes succeed and the file holds the
\* text of cfg; or one of them raises and the file is left as it was, the catch
\* block shows the error box with what parseSaveError returns, or raises what
\* parseSaveError raises.
save(cfg, fileNow, disk) ==
  IF disk.writable
  THEN [file |-> JsonFile(stringify(cfg)), wrote |-> TRUE, dialog |-> FALSE, threw |-> FALSE]
  ELSE IF parseSaveError(disk).ok
  THEN [file |-> fileNow, wrote |-> FALSE, dialog |-> TRUE, threw |-> FALSE]
  ELSE [file |-> fileNow, wrote |-> FALSE, dialog |-> FALSE, threw |-> TRUE]

NotSaved(fileNow) ==
  [file |-> fileNow, wrote |-> FALSE, dialog |-> FALSE, threw |-> FALSE]

\* `Object.values(ContainerEngine).map(String).includes(name)`
IsKnownEngine(name) == name.t = "string" /\ name.v \in ContainerEngine

\* x[k1][k2] = val and x[k1][k2][k3] = val
PutPath2(x, k1, k2, val) == Put(x, k1, Put(Get(x, k1), k2, val))
PutPath3(x, k1, k2, k3, val) == Put(x, k1, PutPath2(Get(x, k1), k2, k3, val))

\* What loadFromDisk() does. threw carries the error code of a raised error;
\* alias tells that the returned object is defaultSettings itself (lines 121
\* and 452); dflt is the defaultSettings object afterwards.
LoadRaised(code, fileNow, dflt) ==
  [threw |-> code, cfg |-> Undef, alias |-> FALSE, dflt |-> dflt,
   saved |-> NotSaved(fileNow)]

\* (an error that save raises leaves loadFromDisk as a SyntaxError)
LoadReturned(cfg, alias, dflt, saved) ==
  IF saved.threw THEN LoadRaised("SyntaxError", saved.file, dflt)
  ELSE [threw |-> "", cfg |-> cfg, alias |-> alias,
        dflt |-> IF alias THEN cfg ELSE dflt, saved |-> saved]

\* lines 126-135 of loadFromDisk(): cfg is what updateSettings returned, with
\* alias telling that it is defaultSettings itself
checkContainerEngine(cfg, alias, fileNow, dflt, disk) ==
  IF IsNullish(Get(cfg, "containerEngine")) THEN LoadRaised("TypeError", fileNow, dflt)
  ELSE IF ~IsKnownEngine(Get(Get(cfg, "containerEngine"), "name"))
  THEN IF ~IsObject(Get(cfg, "containerEngine"))
       THEN LoadRaised("TypeError", fileNow, dflt)
       ELSE LoadReturned(PutPath2(cfg, "containerEngine", "name", S("containerd")),
                         alias, dflt,
                         save(PutPath2(cfg, "containerEngine", "name", S("containerd")),
                              fileNow, disk))
  ELSE IF ~isEqual(cfg, fileNow.v)
  THEN LoadReturned(cfg, alias, dflt, save(cfg, fileNow, disk))
  ELSE LoadReturned(cfg, alias, dflt, NotSaved(fileNow))

\* lines 123-124 of loadFromDisk(): the parsed file is migrated
loadParsed(migrated, fileNow, dflt, disk) ==
  IF ~migrated.ok THEN LoadRaised("TypeError", fileNow, dflt)
  ELSE checkContainerEngine(migrated.val, migrated.alias, fileNow, dflt, disk)

\* loadFromDisk() with dflt the defaultSettings object
loadFromDisk(fileNow, dflt, disk) ==
  CASE fileNow.kind = "absent" -> LoadRaised("ENOENT", fileNow, dflt)
    [] fileNow.kind = "unreadable" -> LoadRaised("EACCES", fileNow, dflt)
    [] fileNow.kind \in {"empty", "corrupt"} ->
         LoadReturned(dflt, TRUE, dflt, save(dflt, fileNow, disk))
    [] fileNow.kind = "json" ->
         loadParsed(updateSettings(fileNow.v, dflt), fileNow, dflt, disk)


Min(a, b) == IF a < b THEN a ELSE b

\* Math.round(totalMemoryInGB / 4.0) for a whole number of GB
RoundQuarter(totalMemoryInGB) == (totalMemoryInGB + 2) \div 4

\* the catch block of load(): a copy of defaultSettings, adjusted and saved.
\* updaterOff: `os.platform() === 'linux' && !process.env['APPIMAGE']`, or the
\* application version includes '-' or '?'.
loadDefaults(code, dflt, osPlatform, totalMemoryInGB, appImage, devBuild) ==
  LET s0 == dflt
      s1 == IF code = "ENOENT" /\ osPlatform \in {"darwin", "linux"}
            THEN PutPath2(s0, "virtualMachine", "memoryInGB",
                          N(Min(6, RoundQuarter(totalMemoryInGB))))
            ELSE s0
      s2 == IF osPlatform = "linux" /\ ~appImage
            THEN PutPath3(s1, "application", "updater", "enabled", B(FALSE))
            ELSE s1
  IN IF devBuild
     THEN PutPath3(s2, "application", "updater", "enabled", B(FALSE))
     ELSE s2

-----------------------------------------------------------------------------
(* Command-line overrides: getUpdatableNode and updateFromCommandLine *)

\* A command-line argument. text is the argument; dashed: arg.startsWith('--');
\* hasEq: arg.indexOf('=') is not -1; name: the field name between the dashes
\* and the equal sign, split at '.'; value: what follows the equal sign ('' when
\* there is none).
Arg(text, name, hasEq, value) ==
  [text |-> text, dashed |-> TRUE, name |-> name, hasEq |-> hasEq, value |-> value]
Plain(text) ==
  [text |-> text, dashed |-> FALSE, name |-> <<text>>, hasEq |-> FALSE, value |-> ""]

\* the loop of getUpdatableNode: currentConfig = currentConfig[field] || {}
RECURSIVE WalkTo(_, _)
WalkTo(currentConfig, optionParts) ==
  IF optionParts = <<>> THEN currentConfig
  ELSE LET next == Get(currentConfig, Head(optionParts)) IN
       WalkTo(IF Truthy(next) THEN next ELSE EmptyObject, Tail(optionParts))

\* getUpdatableNode(cfg, fqFieldAccessor), the accessor split at '.':
\* "found" ([node, final part]), "null", or "throw": `in` applied to the
\* string, number or boolean the walk ended on raises TypeError. (No accessor
\* of the model names an index or the length of an array.)
getUpdatableNode(cfg, parts) ==
  LET currentConfig == WalkTo(cfg, SubSeq(parts, 1, Len(parts) - 1))
      finalOptionPart == parts[Len(parts)]
  IN IF ~IsObject(currentConfig) THEN "throw"
     ELSE IF HasKey(currentConfig, finalOptionPart) THEN "found"
     ELSE "null"

\* lhs[finalFieldName] = finalValue, lhs being the node of cfg at the path
RECURSIVE PutAt(_, _, _)
PutAt(cfg, parts, val) ==
  IF Len(parts) = 1 THEN Put(cfg, parts[1], val)
  ELSE Put(cfg, Head(parts), PutAt(Get(cfg, Head(parts)), Tail(parts), val))

MaxNumber == 9

\* JSON.parse(text) for the texts a command line of the model holds: true,
\* false, null and the numbers 0..MaxNumber parse, anything else raises
JsonParse(text) ==
  CASE text = "true" -> Return(B(TRUE))
    [] text = "false" -> Return(B(FALSE))
    [] text = "null" -> Return(Null)
    [] \E n \in 0..MaxNumber : ToString(n) = text ->
         Return(N(CHOOSE n \in 0..MaxNumber : ToString(n) = text))
    [] OTHER -> Throw("SyntaxError")

\* lines 263-275 left out: the text is assigned as it is
unverifiedValue(finalValue, currentValueType) == Return(S(finalValue))

\* lines 263-275: the value that is assigned for the text finalValue when the
\* current value has the type currentValueType, or the error raised
verifiedValue(finalValue, currentValueType) ==
  IF currentValueType \in {"boolean", "number"}
  THEN IF ~JsonParse(finalValue).ok THEN Throw("parse")
       ELSE IF TypeOf(JsonParse(finalValue).val) # currentValueType THEN Throw("type")
       ELSE JsonParse(finalValue)
  ELSE Return(S(finalValue))

\* lines 244-246 left out: no current value counts as a non-leaf
neverNonLeaf(currentValueType) == FALSE

\* lines 244-246: `case 'object'` of the switch on the type of the current value
isNonLeaf(currentValueType) == currentValueType = "object"

\* lines 226 and 237 left out: the flag stays as it was initialised
StillExternal == TRUE

\* lines 226 and 237: `processingExternalArguments = false`
ExternalEnded == FALSE

\* what the loop did with the arguments before the ones in r.log
Logged(entries, r) == [r EXCEPT !.log = entries \o @]

\* the loop of updateFromCommandLine from argument i on. cfg is updated in
\* place and TransientSettings at once, so a raised error leaves behind what
\* the earlier arguments did. log tells, argument by argument, what the loop
\* did: "skipped" (line 207), "transient" (lines 218, 221), "ignored" (line
\* 233), "assigned" (line 276), "value" (the argument that line 259 takes as
\* the value), or the error raised: "unexpected" (line 209), "invalid" (line
\* 224), "in" (the TypeError of line 193), "no such entry" (line 235),
\* "overwrite" (line 246), "no value" (line 256), "parse" (line 267), "type"
\* (line 272).
RECURSIVE processArguments(_, _, _, _, _)
processArguments(cfg, noModal, commandLineArgs, i, processingExternalArguments) ==
  LET lim == Len(commandLineArgs)
      arg == commandLineArgs[i]
      raised(why) == [threw |-> TRUE, cfg |-> cfg, noModal |-> noModal, log |-> <<why>>]
      continue(did, cfg2, noModal2, next, external) ==
        Logged(did, processArguments(cfg2, noModal2, commandLineArgs, next, external))
      lhsInfo == getUpdatableNode(cfg, arg.name)
      currentValue == GetPath(cfg, arg.name)
      currentValueType == TypeOf(currentValue)
      takesNext == currentValueType # "boolean" /\ ~arg.hasEq
      finalValue ==
        IF currentValueType = "boolean" /\ ~arg.hasEq THEN "true"
        ELSE IF takesNext THEN commandLineArgs[i + 1].text
        ELSE arg.value
      verified == verifiedValue(finalValue, currentValueType)
      next == IF takesNext THEN i + 2 ELSE i + 1
      did == IF takesNext THEN <<"assigned", "value">> ELSE <<"assigned">>
  IN
  IF i > lim THEN [threw |-> FALSE, cfg |-> cfg, noModal |-> noModal, log |-> <<>>]
  ELSE IF ~arg.dashed
  THEN IF processingExternalArguments
       THEN continue(<<"skipped">>, cfg, noModal, i + 1, TRUE)
       ELSE raised("unexpected")
  ELSE IF arg.name = <<"no-modal-dialogs">>
  THEN IF arg.value \in {"", "true"}
       THEN continue(<<"transient">>, cfg, TRUE, i + 1, ExternalEnded)
       ELSE IF arg.value = "false"
       THEN continue(<<"transient">>, cfg, FALSE, i + 1, ExternalEnded)
       ELSE raised("invalid")
  ELSE IF lhsInfo = "throw" THEN raised("in")
  ELSE IF lhsInfo = "null"
  THEN IF processingExternalArguments
       THEN continue(<<"ignored">>, cfg, noModal, i + 1, TRUE)
       ELSE raised("no such entry")
  ELSE IF isNonLeaf(currentValueType) THEN raised("overwrite")
  ELSE IF takesNext /\ i = lim THEN raised("no value")
  ELSE IF ~verified.ok THEN raised(verified.val.v)
  ELSE continue(did, PutAt(cfg, arg.name, verified.val), noModal, next, ExternalEnded)

\* updateFromCommandLine(cfg, commandLineArgs): the loop, then save and
\* `_isFirstRun = false` when the argument list is not empty. raisedIn tells
\* where an error came from: "" (none), "arguments" (the loop) or "save".
updateFromCommandLine(cfg, noModal, firstRun, commandLineArgs, fileNow, disk) ==
  LET r == processArguments(cfg, noModal, commandLineArgs, 1, TRUE)
      saved == save(r.cfg, fileNow, disk)
  IN
  IF r.threw
  THEN [threw |-> TRUE, raisedIn |-> "arguments", cfg |-> r.cfg, noModal |-> r.noModal,
        firstRun |-> firstRun, saved |-> NotSaved(fileNow), log |-> r.log]
  ELSE IF Len(commandLineArgs) > 0
  THEN IF saved.threw
       THEN [threw |-> TRUE, raisedIn |-> "save", cfg |-> r.cfg, noModal |-> r.noModal,
             firstRun |-> firstRun, saved |-> saved, log |-> r.log]
       ELSE [threw |-> FALSE, raisedIn |-> "", cfg |-> r.cfg, noModal |-> r.noModal,
             firstRun |-> FALSE, saved |-> saved, log |-> r.log]
  ELSE [threw |-> FALSE, raisedIn |-> "", cfg |-> r.cfg, noModal |-> r.noModal,
        firstRun |-> firstRun, saved |-> NotSaved(fileNow), log |-> r.log]

-----------------------------------------------------------------------------
(* Spec: the settings store of a process, and its restarts *)

MaxArgs == 2

MaxCalls == 2

\* the settings objects a settings file of the model may hold at the start
StoredObjects ==
  { EmptyObject,
    stringify(defaultSettings),
    O([version |-> N(5), containerEngine |-> O([name |-> S("frobnicate")])]),
    O([version |-> N(4),
       kubernetes |-> O([containerEngine |-> S("moby"), suppressSudo |-> B(TRUE),
                         experimental |-> O([socketVMNet |-> B(TRUE)]),
                         memoryInGB |-> N(4)]),
       containerEngine |-> O([imageAllowList |-> O([enabled |-> B(TRUE)])]),
       debug |-> B(TRUE), telemetry |-> B(FALSE), updater |-> B(TRUE),
       pathManagementStrategy |-> S("rcfiles")]),
    O([version |-> N(4)]),
    O([version |-> N(5), kubernetes |-> N(7)]),
    O([version |-> N(5), containerEngine |-> S("moby")]),
    O([version |-> N(6), containerEngine |-> O([name |-> S("moby")])]) }

StoredFiles ==
  {NoFile, UnreadableFile, EmptyFile, CorruptFile} \cup
  {JsonFile(o) : o \in StoredObjects}

\* the arguments a command line of the model is made of
Arguments ==
  { Plain("moby"),
    Arg("--kubernetes.enabled=false", <<"kubernetes", "enabled">>, TRUE, "false"),
    Arg("--containerEngine.name=frobnicate", <<"containerEngine", "name">>, TRUE,
        "frobnicate"),
    Arg("--containerEngine.name", <<"containerEngine", "name">>, FALSE, ""),
    Arg("--version=3", <<"version">>, TRUE, "3"),
    Arg("--virtualMachine.memoryInGB=abc", <<"virtualMachine", "memoryInGB">>, TRUE,
        "abc"),
    Arg("--no-modal-dialogs", <<"no-modal-dialogs">>, FALSE, "") }

CommandLines == UNION {[1..n -> Arguments] : n \in 0..MaxArgs}

\* os.totalmem() in GB, as load() reads it when there is no settings file
TotalMemoryInGB == {32}

Init ==
  /\ platform \in Platforms
  /\ systemRoot = AbsentRoot
  /\ userRoot = AbsentRoot
  /\ deploymentProfiles = NotRead
  /\ file \in StoredFiles
  /\ writable \in BOOLEAN
  /\ plainPath \in (IF writable THEN {TRUE} ELSE BOOLEAN)
  /\ calls = 0
  /\ FreshProcess
  /\ IdleCommandLine
  /\ IdleMigrate
  /\ IdleValidate

\* the disk as the process finds it
Disk == AnyDisk(writable, plainPath)

\* what a call did: raisedIn tells where the error it raised came from ("" when
\* it returned)
Called(op, raisedIn, read, saved) ==
  [op |-> op, ok |-> (raisedIn = ""), raisedIn |-> raisedIn, read |-> read,
   wrote |-> saved.wrote, dialog |-> saved.dialog]

\* a load() that reads the file whatever the process holds
neverMemoized(settings) == FALSE

\* `settings ??= loadFromDisk()`: loadFromDisk() is not evaluated when the
\* module's `settings` holds a value
memoized(settings) == ~IsNullish(settings)

\* load() in a process that has not loaded yet: loadFromDisk(), and the catch
\* block when it raises. An error that save raises in the catch block leaves
\* load(), after `settings` has been assigned.
LoadFirst ==
  /\ ~memoized(settingsCache)
  /\ \E totalMemoryInGB \in TotalMemoryInGB, appImage \in BOOLEAN, devBuild \in BOOLEAN :
     \E r \in {loadFromDisk(file, liveDefaults, Disk)} :
     \E fresh \in {loadDefaults(r.threw, liveDefaults, platform, totalMemoryInGB,
                                appImage, devBuild)} :
     \E saved \in {IF r.threw = "" THEN r.saved ELSE save(fresh, file, Disk)} :
       /\ settingsCache' = IF r.threw = "" THEN r.cfg ELSE fresh
       /\ aliased' = (r.threw = "" /\ r.alias)
       /\ liveDefaults' = r.dflt
       /\ isFirstRun' = (isFirstRun \/ r.threw = "ENOENT")
       /\ file' = saved.file
       /\ last' = Called("load", IF saved.threw THEN "save" ELSE "", TRUE, saved)
  /\ UNCHANGED <<writable, plainPath, calls, noModalDialogs, varsCommandLine, varsMigrate,
                 varsValidate, varsProfiles>>

\* load() in a process that has loaded: the cached settings are returned
LoadCached ==
  /\ memoized(settingsCache)
  /\ last' = Called("load", "", FALSE, NotSaved(file))
  /\ UNCHANGED <<file, writable, plainPath, calls, varsProcess, varsCommandLine, varsMigrate,
                 varsValidate, varsProfiles>>

\* firstRunDialogNeeded(): returns _isFirstRun
FirstRunDialogNeeded ==
  /\ last' = Called("firstRunDialogNeeded", "", FALSE, NotSaved(file))
  /\ UNCHANGED <<file, writable, plainPath, calls, varsProcess, varsCommandLine, varsMigrate,
                 varsValidate, varsProfiles>>

\* what updateFromCommandLine(load(), commandLineArgs) does to the process and
\* the file, r being what the operator gives
Updated(r) ==
  /\ settingsCache' = r.cfg
  /\ liveDefaults' = IF aliased THEN r.cfg ELSE liveDefaults
  /\ noModalDialogs' = r.noModal
  /\ isFirstRun' = r.firstRun
  /\ file' = r.saved.file
  /\ last' = Called("updateFromCommandLine", r.raisedIn, FALSE, r.saved)
  /\ UNCHANGED <<writable, plainPath, aliased, varsMigrate, varsValidate, varsProfiles>>

\* updateFromCommandLine(load(), commandLineArgs)
UpdateFromCommandLine ==
  /\ settingsCache # Undef
  /\ calls < MaxCalls
  /\ calls' = calls + 1
  /\ \E commandLineArgs \in CommandLines :
       Updated(updateFromCommandLine(settingsCache, noModalDialogs, isFirstRun,
                                     commandLineArgs, file, Disk))
  /\ UNCHANGED varsCommandLine

\* save(load())
Save ==
  /\ settingsCache # Undef
  /\ LET saved == save(settingsCache, file, Disk)
     IN /\ file' = saved.file
        /\ last' = Called("save", IF saved.threw THEN "save" ELSE "", FALSE, saved)
  /\ UNCHANGED <<writable, plainPath, calls, varsProcess, varsCommandLine, varsMigrate,
                 varsValidate, varsProfiles>>

\* clear(): the settings directory is removed, or rm rejects and it stays
Clear ==
  /\ file' = IF writable THEN NoFile ELSE file
  /\ last' = Called("clear", IF writable THEN "" ELSE "rm", FALSE, NotSaved(file'))
  /\ UNCHANGED <<writable, plainPath, calls, varsProcess, varsCommandLine, varsMigrate,
                 varsValidate, varsProfiles>>

\* the settings files another program leaves in the place of settings.json
ExternalFiles ==
  { CorruptFile,
    JsonFile(O([version |-> N(5), containerEngine |-> O([name |-> S("frobnicate")])])) }

\* another program rewrites settings.json while the process runs
ExternalChange ==
  /\ settingsCache # Undef
  /\ \E f \in ExternalFiles \ {file} : file' = f
  /\ last' = Called("(external)", "", FALSE, NotSaved(file'))
  /\ UNCHANGED <<writable, plainPath, calls, varsProcess, varsCommandLine, varsMigrate,
                 varsValidate, varsProfiles>>

\* the process ends and a new one starts
Restart ==
  /\ last.op # "none"
  /\ settingsCache' = Undef
  /\ aliased' = FALSE
  /\ liveDefaults' = defaultSettings
  /\ isFirstRun' = FALSE
  /\ noModalDialogs' = FALSE
  /\ last' = NoCall
  /\ deploymentProfiles' = NotRead
  /\ UNCHANGED <<file, writable, plainPath, calls, platform, systemRoot, userRoot,
                 varsCommandLine, varsMigrate, varsValidate>>

Next ==
  \/ LoadFirst
  \/ LoadCached
  \/ FirstRunDialogNeeded
  \/ UpdateFromCommandLine
  \/ Save
  \/ Clear
  \/ ExternalChange
  \/ Restart

Spec == Init /\ [][Next]_vars

\* The same program where the administrator has locked kubernetes.enabled in
\* the system root: a Locked registry subtree on win32, a locked profile file
\* on linux and darwin.
LockedArtifact(osPlatform) ==
  IF osPlatform = "win32"
  THEN Ok(O([kubernetes |-> O([enabled |-> N(1)])]))
  ELSE Ok(O([kubernetes |-> O([enabled |-> B(TRUE)])]))

InitLocked ==
  /\ platform \in Platforms
  /\ systemRoot = [exists |-> TRUE, defaults |-> Absent,
                   locked |-> LockedArtifact(platform)]
  /\ userRoot = AbsentRoot
  /\ deploymentProfiles = NotRead
  /\ file \in {NoFile, JsonFile(stringify(defaultSettings))}
  /\ writable = TRUE
  /\ plainPath = TRUE
  /\ calls = 0
  /\ FreshProcess
  /\ IdleCommandLine
  /\ IdleMigrate
  /\ IdleValidate

NextLocked ==
  \/ Next
  \/ ReadDeploymentProfiles

SpecLocked == InitLocked /\ [][NextLocked]_vars

-----------------------------------------------------------------------------
(* SpecCommandLine: a process loads its settings and applies its command line *)

MaxTokens == 3

\* the arguments the command line of the process is made of
ArgvTokens ==
  { Plain("moby"),
    Arg("--kubernetes.enabled=false", <<"kubernetes", "enabled">>, TRUE, "false"),
    Arg("--kubernetes.enabled", <<"kubernetes", "enabled">>, FALSE, ""),
    Arg("--virtualMachine.memoryInGB=8", <<"virtualMachine", "memoryInGB">>, TRUE, "8"),
    Arg("--virtualMachine.memoryInGB=abc", <<"virtualMachine", "memoryInGB">>, TRUE,
        "abc"),
    Arg("--containerEngine.name", <<"containerEngine", "name">>, FALSE, ""),
    Arg("--kubernetes.version=8", <<"kubernetes", "version">>, TRUE, "8"),
    Arg("--kubernetes.options=x", <<"kubernetes", "options">>, TRUE, "x"),
    Arg("--containerEngine.imageAllowList.patterns=x",
        <<"containerEngine", "imageAllowList", "patterns">>, TRUE, "x"),
    Arg("--containerEngine.name.foo=1", <<"containerEngine", "name", "foo">>, TRUE, "1"),
    Arg("--bogus.field=1", <<"bogus", "field">>, TRUE, "1"),
    Arg("--no-modal-dialogs", <<"no-modal-dialogs">>, FALSE, "") }

ArgvInputs == UNION {[1..n -> ArgvTokens] : n \in 0..MaxTokens}

\* the settings file and the disk the process starts with
Scenes ==
  { <<NoFile, GoodDisk>>,
    <<JsonFile(stringify(defaultSettings)), GoodDisk>>,
    <<JsonFile(O([version |-> N(5), kubernetes |-> N(7)])), GoodDisk>>,
    <<JsonFile(stringify(defaultSettings)), AnyDisk(FALSE, TRUE)>>,
    <<NoFile, AnyDisk(FALSE, FALSE)>> }

InitCommandLine ==
  /\ platform = "linux"
  /\ systemRoot = AbsentRoot
  /\ userRoot = AbsentRoot
  /\ deploymentProfiles = NotRead
  /\ \E scene \in Scenes :
       /\ file = scene[1]
       /\ writable = scene[2].writable
       /\ plainPath = scene[2].plainPath
  /\ calls = 0
  /\ FreshProcess
  /\ argv \in ArgvInputs
  /\ cli = NotParsed
  /\ IdleMigrate
  /\ IdleValidate

\* updateFromCommandLine(load(), argv), once
UpdateFromArgv ==
  /\ settingsCache # Undef
  /\ ~cli.called
  /\ calls' = calls + 1
  /\ argv' = argv
  /\ \E r \in {updateFromCommandLine(settingsCache, noModalDialogs, isFirstRun, argv,
                                      file, Disk)} :
       /\ Updated(r)
       /\ cli' = [called |-> TRUE, before |-> settingsCache,
                  firstRunBefore |-> isFirstRun, fileBefore |-> file,
                  raisedIn |-> r.raisedIn, log |-> r.log]

NextCommandLine ==
  \/ LoadFirst
  \/ UpdateFromArgv

SpecCommandLine == InitCommandLine /\ [][NextCommandLine]_vars

-----------------------------------------------------------------------------
(* Properties of readDeploymentProfiles (SpecProfiles) *)

\* the system root supplies only a locked profile, the user root only a
\* defaults profile
OnlySystemLockedAndUserDefaults ==
  /\ systemRoot.exists /\ systemRoot.defaults.kind = "absent"
  /\ systemRoot.locked.kind = "ok"
  /\ userRoot.exists /\ userRoot.defaults.kind = "ok"
  /\ userRoot.locked.kind = "absent"

\* the locked profile of a root as parsed or read from the registry, validated
ValidatedLocked(root) ==
  OrEmptyObject(validateDeploymentProfile(
    IF platform = "win32"
    THEN readRegistryUsingSchema(defaultSettings, root.locked.v)
    ELSE root.locked.v,
    defaultSettings).val)

\* C2: on every platform, when the system root supplies only a locked profile
\* and the user root only a defaults profile, readDeploymentProfiles returns
\* the system root's validated locked object with an empty defaults object,
\* and does not consult the user root.
C2_SystemLockedShortCircuits ==
  (deploymentProfiles # NotRead /\ OnlySystemLockedAndUserDefaults) =>
    /\ deploymentProfiles.ok
    /\ deploymentProfiles.locked = ValidatedLocked(systemRoot)
    /\ deploymentProfiles.defaults = EmptyObject
    /\ deploymentProfiles.consulted = <<"system">>

Root(name) == IF name = "system" THEN systemRoot ELSE userRoot

\* C3: on every platform, if the locked artifact of a consulted root exists
\* but cannot be read or parsed, readDeploymentProfiles raises an error.
C3_BadLockedProfileRaises ==
  (/\ deploymentProfiles # NotRead
   /\ \E i \in DOMAIN deploymentProfiles.consulted :
        /\ Root(deploymentProfiles.consulted[i]).exists
        /\ Root(deploymentProfiles.consulted[i]).locked.kind = "bad") =>
    ~deploymentProfiles.ok

-----------------------------------------------------------------------------
(* Properties of validateDeploymentProfile (SpecValidate) *)

\* every key of p is a key of the schema node s with a value of the same
\* runtime type (null, array and object told apart), at every nesting level
RECURSIVE ConformsTo(_, _)
ConformsTo(p, s) ==
  \A key \in Keys(p) :
    /\ In(s, key)
    /\ Props(p)[key].t = SchemaGet(s, key).t
    /\ Props(p)[key].t = "object" => ConformsTo(Props(p)[key], SchemaGet(s, key))

\* C4: after validateDeploymentProfile(p, s) returns, at every nesting level
\* the result has no key absent from the schema node and no key whose value's
\* runtime type differs from the type of the schema value.
C4_ValidatedProfileConforms ==
  (vres # NotValidated /\ vres.ok /\ vres.val # Undef) =>
    ConformsTo(vres.val, defaultSettings)

\* C5: validateDeploymentProfile(profile, defaultSettings) returns without
\* raising for every parsed profile, null values, arrays in place of objects,
\* objects in place of arrays and nested unknown keys included.
C5_ValidateNeverRaises ==
  vres # NotValidated => vres.ok

-----------------------------------------------------------------------------
(* Properties of updateSettings (SpecMigrate) *)

\* C6: for every non-empty raw settings object whose stored version is below
\* CURRENT_SETTINGS_VERSION, whichever fields it has or lacks, updateSettings
\* returns without raising an object whose version is CURRENT_SETTINGS_VERSION.
C6_OldVersionMigratesToCurrent ==
  (/\ mig # NotCalled
   /\ Get(raw, "version").t = "number"
   /\ Get(raw, "version").v < CURRENT_SETTINGS_VERSION) =>
    /\ mig.ok
    /\ Get(mig.val, "version") = N(CURRENT_SETTINGS_VERSION)

\* C7: migration is idempotent: when updateSettings returns on a raw object,
\* applying it to the result runs no migration step and returns an object
\* deep-equal to the first result.
C7_MigrationIdempotent ==
  mig2 # NotCalled =>
    /\ mig2.ok
    /\ mig2.steps = <<>>
    /\ mig2.val = mig.val

\* a second migration has run on the result of one that applied a step
C7_Witness ==
  /\ mig2 # NotCalled
  /\ mig.steps # <<>>
  /\ mig.val # defaultSettings

\* every key path of d is a key path of x
RECURSIVE HasAllKeyPaths(_, _)
HasAllKeyPaths(x, d) ==
  \A key \in Keys(d) :
    /\ HasKey(x, key)
    /\ Props(d)[key].t = "object" => HasAllKeyPaths(Props(x)[key], Props(d)[key])

\* C8: every key path of defaultSettings is present in the object
\* updateSettings returns, also when the raw object holds a scalar or an array
\* where the defaults have an object section.
C8_DefaultKeyPathsPresent ==
  (mig # NotCalled /\ mig.ok) => HasAllKeyPaths(mig.val, defaultSettings)

\* C9: a version 4 object with kubernetes.containerEngine = "moby" and
\* kubernetes.suppressSudo = true migrates to containerEngine.name = "moby",
\* application.adminAccess = false and a kubernetes section without the
\* containerEngine and suppressSudo keys, whatever else the object has or lacks.
C9_Version4Scenario ==
  (/\ mig # NotCalled
   /\ Get(raw, "version") = N(4)
   /\ GetPath(raw, <<"kubernetes", "containerEngine">>) = S("moby")
   /\ GetPath(raw, <<"kubernetes", "suppressSudo">>) = B(TRUE)) =>
    /\ mig.ok
    /\ GetPath(mig.val, <<"containerEngine", "name">>) = S("moby")
    /\ GetPath(mig.val, <<"application", "adminAccess">>) = B(FALSE)
    /\ ~HasKey(Get(mig.val, "kubernetes"), "containerEngine")
    /\ ~HasKey(Get(mig.val, "kubernetes"), "suppressSudo")

-----------------------------------------------------------------------------
(* Properties of the settings store (Spec, SpecLocked) *)

\* the paths to the leaves of a profile
RECURSIVE LeafPaths(_)
LeafPaths(x) ==
  IF IsObject(x)
  THEN UNION { {<<k>> \o p : p \in LeafPaths(Props(x)[k])} : k \in Keys(x) }
  ELSE {<<>>}

\* what the settings file holds at a path
Persisted(f, path) == IF f.kind = "json" THEN GetPath(f.v, path) ELSE Undef

\* C1: no call of updateFromCommandLine changes a field of the locked profile
\* that readDeploymentProfiles returned, neither in the settings in memory
\* nor in the settings file.
C1_LockedFieldsKeptByCommandLine ==
  [][(deploymentProfiles.ok /\ calls' = calls + 1) =>
       \A path \in LeafPaths(deploymentProfiles.locked) :
         /\ GetPath(settingsCache', path) = GetPath(settingsCache, path)
         /\ Persisted(file', path) = Persisted(file, path)]_vars

\* C10: the settings that load() returned, or that a first call of
\* updateFromCommandLine on them returned without raising, are deep-equal to
\* what load() returns in a new process after save() has written them.
C10_SaveThenFreshLoadRoundTrips ==
  (/\ settingsCache # Undef
   /\ last.ok
   /\ \/ last.op = "load"
      \/ last.op = "updateFromCommandLine" /\ calls = 1) =>
    \A totalMemoryInGB \in TotalMemoryInGB, appImage \in BOOLEAN, devBuild \in BOOLEAN :
      LET saved == save(settingsCache, file, GoodDisk)
          fresh == loadFromDisk(saved.file, defaultSettings, GoodDisk)
      IN isEqual(IF fresh.threw = "" THEN fresh.cfg
                 ELSE loadDefaults(fresh.threw, defaultSettings, platform,
                                   totalMemoryInGB, appImage, devBuild),
                 settingsCache)

-----------------------------------------------------------------------------
(* Properties of updateFromCommandLine (SpecCommandLine) *)

\* argument i of argv was reached by the loop, which did `what` with it
Did(i, what) == i \in DOMAIN cli.log /\ cli.log[i] = what

\* what argument i addresses, as it was before the call
Before(i) == GetPath(cli.before, argv[i].name)

\* the text that an assigning argument i gives as the value
ValueText(i) ==
  IF argv[i].hasEq THEN argv[i].value
  ELSE IF TypeOf(Before(i)) = "boolean" THEN "true"
  ELSE argv[i + 1].text

\* argument i is the last one that assigned its field
LastAssigned(i) ==
  /\ Did(i, "assigned")
  /\ \A j \in DOMAIN cli.log : (j > i /\ Did(j, "assigned")) => argv[j].name # argv[i].name

\* C11: command-line type safety. A boolean or number field is assigned
\* exactly when the text of the value JSON-parses to a value of that type
\* (otherwise the argument raises), and then holds the parsed value (the number
\* 8 for --virtualMachine.memoryInGB=8); a string field holds the raw text;
\* every assigned leaf has the runtime type it had before the call.
C11_CommandLineKeepsTypes ==
  cli.called =>
    \A i \in DOMAIN cli.log :
      /\ (TypeOf(Before(i)) \in {"boolean", "number"}
            /\ cli.log[i] \in {"assigned", "parse", "type"}) =>
           (Did(i, "assigned") <=>
              /\ JsonParse(ValueText(i)).ok
              /\ TypeOf(JsonParse(ValueText(i)).val) = TypeOf(Before(i)))
      /\ Did(i, "assigned") =>
           TypeOf(GetPath(settingsCache, argv[i].name)) = TypeOf(Before(i))
      /\ (LastAssigned(i) /\ cli.raisedIn # "arguments") =>
           GetPath(settingsCache, argv[i].name) =
             IF TypeOf(Before(i)) \in {"boolean", "number"}
             THEN JsonParse(ValueText(i)).val
             ELSE S(ValueText(i))

\* a call returned after it set the memory to the number 8 and the Kubernetes
\* version to the string "8"
C11_Witness ==
  /\ cli.called
  /\ cli.raisedIn = ""
  /\ GetPath(cli.before, <<"virtualMachine", "memoryInGB">>) # N(8)
  /\ GetPath(settingsCache, <<"virtualMachine", "memoryInGB">>) = N(8)
  /\ GetPath(settingsCache, <<"kubernetes", "version">>) = S("8")

\* argument i is processed as an override: it starts with "--", is not
\* --no-modal-dialogs, and the loop reached it other than as a value
Override(i) ==
  /\ i \in DOMAIN cli.log
  /\ argv[i].dashed
  /\ argv[i].name # <<"no-modal-dialogs">>
  /\ cli.log[i] # "value"

\* C12: an override whose path resolves to a field holding an object (a
\* section, an array or a map) makes updateFromCommandLine raise, in the
\* external phase as in the internal one, and the field is not replaced.
C12_NonLeafOverrideRaises ==
  cli.called =>
    \A i \in DOMAIN cli.log :
      (Override(i) /\ TypeOf(Before(i)) = "object") =>
        /\ Did(i, "overwrite")
        /\ cli.raisedIn = "arguments"
        /\ GetPath(settingsCache, argv[i].name) = Before(i)

\* an override of an array raised in the external phase, after an argument
\* that was skipped
C12_Witness ==
  /\ cli.called
  /\ Did(1, "skipped")
  /\ Did(2, "overwrite")
  /\ IsArray(Before(2))

\* argument j is a recognized override: --no-modal-dialogs, or an override
\* whose path resolves in the settings
Recognized(j) ==
  /\ j \in DOMAIN cli.log
  /\ argv[j].dashed
  /\ cli.log[j] # "value"
  /\ \/ argv[j].name = <<"no-modal-dialogs">>
     \/ getUpdatableNode(cli.before, argv[j].name) = "found"

\* C13: the phases of the arguments. Before the first recognized override an
\* argument that does not start with "--" is skipped, without error or
\* effect; after it such an argument raises, unless the flag before it took
\* it as its value; and no argument is skipped or ignored once a recognized
\* override has been seen.
C13_ArgumentPhases ==
  cli.called =>
    /\ \A i \in DOMAIN cli.log :
         (~argv[i].dashed /\ cli.log[i] # "value") =>
           IF \E j \in 1..(i - 1) : Recognized(j)
           THEN Did(i, "unexpected") /\ cli.raisedIn = "arguments"
           ELSE Did(i, "skipped")
    /\ \A i \in DOMAIN cli.log :
         (\E j \in 1..(i - 1) : Recognized(j)) => cli.log[i] \notin {"skipped", "ignored"}
    /\ (\A i \in DOMAIN cli.log : Did(i, "skipped")) =>
         /\ cli.raisedIn # "arguments"
         /\ settingsCache = cli.before
         /\ noModalDialogs = FALSE

\* an argument was skipped before a recognized override, and the like
\* argument after the override raised
C13_Witness ==
  /\ cli.called
  /\ Did(1, "skipped")
  /\ Recognized(2)
  /\ Did(3, "unexpected")
  /\ argv[1] = argv[3]

\* the path names a field that the settings x hold
RECURSIVE HasPath(_, _)
HasPath(x, path) ==
  \/ path = <<>>
  \/ /\ IsObject(x)
     /\ HasKey(x, Head(path))
     /\ HasPath(Get(x, Head(path)), Tail(path))

\* C14: an override whose path names no field of the settings (a path that
\* descends through a scalar leaf included) is ignored, without error, while
\* no recognized override has been seen, and raises afterwards.
C14_UnresolvedOverridePhases ==
  cli.called =>
    \A i \in DOMAIN cli.log :
      (Override(i) /\ ~HasPath(cli.before, argv[i].name)) =>
        IF \E j \in 1..(i - 1) : Recognized(j)
        THEN cli.log[i] \in {"no such entry", "in"} /\ cli.raisedIn = "arguments"
        ELSE Did(i, "ignored")

\* the last call called save()
SaveCalled == last.wrote \/ last.dialog \/ last.raisedIn = "save"

\* C15: when the loop of updateFromCommandLine has not raised, save() is called
\* and the first-run flag cleared if and only if an argument was a recognized
\* override; otherwise the file and the flag stay as they were.
C15_SavesIffOverrideRecognized ==
  (cli.called /\ cli.raisedIn # "arguments") =>
    IF \E i \in DOMAIN cli.log : Recognized(i)
    THEN SaveCalled /\ (cli.raisedIn = "" => ~isFirstRun)
    ELSE ~SaveCalled /\ isFirstRun = cli.firstRunBefore /\ file = cli.fileBefore

-----------------------------------------------------------------------------
(* Properties of load, save and firstRunDialogNeeded (Spec) *)

\* the last call was the load() that read the settings file
FirstLoadDone == last.op = "load" /\ last.read

\* C16: the load() that reads the settings file returns, whatever the file
\* holds; what it returns has version CURRENT_SETTINGS_VERSION and a known
\* container engine name, and where the disk can be written the file holds it.
C16_LoadNeverRaises ==
  FirstLoadDone =>
    /\ last.ok
    /\ Get(settingsCache, "version") = N(CURRENT_SETTINGS_VERSION)
    /\ IsKnownEngine(GetPath(settingsCache, <<"containerEngine", "name">>))
    /\ (writable => file = JsonFile(stringify(settingsCache)))

\* C17: the load() that reads the settings file leaves the first-run flag true
\* exactly when the file was absent; for an empty or corrupt file it returns
\* the compiled-in defaults, version CURRENT_SETTINGS_VERSION, and the flag is
\* false; firstRunDialogNeeded() changes neither the process nor the file.
C17_FirstRunIffFileAbsent ==
  [][/\ (settingsCache = Undef /\ settingsCache' # Undef) =>
          /\ isFirstRun' <=> (file.kind = "absent")
          /\ (file.kind \in {"empty", "corrupt"}) =>
                /\ last'.ok
                /\ settingsCache' = defaultSettings
                /\ Get(settingsCache', "version") = N(CURRENT_SETTINGS_VERSION)
     /\ (last'.op = "firstRunDialogNeeded") =>
          UNCHANGED <<file, varsProcess>>]_vars

\* C18: once the process holds its settings, a load() returns the object it
\* holds, without reading and without writing the settings file, whatever the
\* file has become since.
C18_LoadMemoized ==
  [][(settingsCache # Undef /\ last'.op = "load") =>
       /\ last'.ok /\ ~last'.read /\ ~last'.wrote /\ ~last'.dialog
       /\ settingsCache' = settingsCache
       /\ file' = file]_vars

\* a load() answered from memory while the file, written by the first load,
\* has since been corrupted by another program
C18_Witness ==
  /\ last.op = "load" /\ ~last.read
  /\ writable /\ file.kind = "corrupt"

\* C19: where the settings file cannot be written, save() shows the error box
\* and returns, leaving the settings it was given as they are; load() and
\* updateFromCommandLine raise no error that comes from save().
C19_SaveFailureIsReported ==
  [][(~writable /\ last'.op \in {"save", "load", "updateFromCommandLine"}) =>
       /\ last'.raisedIn # "save"
       /\ (last'.op = "save") => (last'.dialog /\ UNCHANGED varsProcess)]_vars

-----------------------------------------------------------------------------
(* Properties of a mistyped deployment profile (SpecValidate) *)

\* C20: a profile whose kubernetes.version, a string in the schema, holds an
\* array is refused: validateDeploymentProfile raises an error instead of
\* returning the profile without the field.
C20_MistypedProfileFieldIsFatal ==
  (/\ vres # NotValidated
   /\ IsArray(GetPath(parsedProfile, <<"kubernetes", "version">>))) =>
    ~vres.ok

-----------------------------------------------------------------------------
(* Properties of validateDeploymentProfile on arrays (SpecValidate) *)

\* p is the profile given, s the schema node, r what is left of p: for every
\* key of p in s where both values are of typeof 'object', two arrays leave
\* the value as it is, one array and one non-array remove the key, and two
\* non-arrays are looked into.
RECURSIVE ArraysHandled(_, _, _)
ArraysHandled(p, s, r) ==
  \A key \in {k \in Keys(p) : In(s, k)} :
    \E pv \in {Props(p)[key]}, sv \in {SchemaGet(s, key)} :
      (TypeOf(pv) = "object" /\ TypeOf(sv) = "object") =>
        IF IsArray(pv) /\ IsArray(sv) THEN Get(r, key) = pv
        ELSE IF IsArray(pv) # IsArray(sv) THEN ~HasKey(r, key)
        ELSE IsObject(pv) => (HasKey(r, key) /\ ArraysHandled(pv, sv, Get(r, key)))

\* C21: validateDeploymentProfile keeps an array of the profile where the
\* schema has an array, and deletes the key where exactly one of the profile
\* value and the schema value is an array.
C21_ArrayObjectConfusionDropped ==
  (vres # NotValidated /\ vres.ok /\ IsObject(parsedProfile)) =>
    ArraysHandled(parsedProfile, defaultSettings, vres.val)

-----------------------------------------------------------------------------
(* Properties of updateSettings on newer and partial files (SpecMigrate) *)

\* what the raw object held at a key is still held by the result: a scalar is
\* equal, an object or array has kept its kind, its elements and every one of
\* its keys
RECURSIVE Kept(_, _)
Kept(before, after) ==
  IF IsObject(before)
  THEN /\ after.t = before.t
       /\ IsArray(before) => after.v.e = before.v.e
       /\ \A k \in Keys(before) : Kept(Props(before)[k], Get(after, k))
  ELSE after = before

\* the raw object states a version above CURRENT_SETTINGS_VERSION
FromTheFuture ==
  /\ Get(raw, "version").t = "number"
  /\ Get(raw, "version").v > CURRENT_SETTINGS_VERSION

\* C22: for a raw object of a version above CURRENT_SETTINGS_VERSION
\* updateSettings returns, runs no entry of updateTable, sets version to
\* CURRENT_SETTINGS_VERSION and keeps every other key of the raw object.
C22_NewerVersionKept ==
  (mig # NotCalled /\ FromTheFuture) =>
    /\ mig.ok
    /\ mig.steps = <<>>
    /\ Get(mig.val, "version") = N(CURRENT_SETTINGS_VERSION)
    /\ \A k \in Keys(raw) \ {"version"} : Kept(Props(raw)[k], Get(mig.val, k))

\* a version 6 file still holding the keys that updateTable[4] would move
C22_Witness ==
  /\ mig # NotCalled /\ mig.ok
  /\ FromTheFuture
  /\ Get(raw, "debug") = B(TRUE)
  /\ GetPath(raw, <<"kubernetes", "suppressSudo">>) = B(TRUE)
  /\ Get(mig.val, "debug") = B(TRUE)


\* the raw object after the entries of updateTable have run on it (none runs
\* on the empty object, line 451)
Stepped ==
  IF Keys(raw) = {} THEN raw ELSE RunSteps(raw, LoadedVersion(raw), <<>>).val

\* C23: the merge of line 470 keeps every defined leaf the migrated raw object
\* holds (version apart) and gives every leaf of defaultSettings that the
\* migrated raw object lacks its default value, at every nesting level.
C23_MergeFillsAndKeeps ==
  (mig # NotCalled /\ mig.ok) =>
    /\ \A path \in LeafPaths(Stepped) \ {<<"version">>} :
         GetPath(Stepped, path) # Undef =>
           GetPath(mig.val, path) = GetPath(Stepped, path)
    /\ \A path \in LeafPaths(defaultSettings) :
         GetPath(Stepped, path) = Undef =>
           GetPath(mig.val, path) = GetPath(defaultSettings, path)

-----------------------------------------------------------------------------
(* Properties of loadFromDisk and of the defaultSettings object (Spec) *)

\* a step in which load() reads a settings file that JSON.parse decodes
FirstLoadOfJson ==
  settingsCache = Undef /\ settingsCache' # Undef /\ file.kind = "json"

\* what updateSettings makes of the decoded file
Migrated == updateSettings(file.v, liveDefaults)

MigratedEngineUnknown ==
  ~IsKnownEngine(GetPath(Migrated.val, <<"containerEngine", "name">>))

\* the cases in which loadFromDisk is to write the file
MustWrite == Migrated.ok /\ (MigratedEngineUnknown \/ Migrated.val # file.v)

\* loadFromDisk returned to load()
LoadFromDiskReturned == loadFromDisk(file, liveDefaults, Disk).threw = ""

C25_DefaultSettingsNeverModified ==
  liveDefaults = defaultSettings /\ ~aliased

-----------------------------------------------------------------------------
(* Properties of a raising updateFromCommandLine (SpecCommandLine) *)

\* C26: when updateFromCommandLine raises on an argument, the settings are as
\* they were before the call, the transient settings are unchanged (the
\* process started with noModalDialogs false) and the file is not written.
C26_RaiseLeavesSettingsUntouched ==
  (cli.called /\ cli.raisedIn = "arguments") =>
    /\ settingsCache = cli.before
    /\ ~noModalDialogs
    /\ file = cli.fileBefore
    /\ ~last.wrote

-----------------------------------------------------------------------------
(* Properties of the version and engine name of a running process (Spec) *)

\* x has version CURRENT_SETTINGS_VERSION and a known container engine name
VersionAndEngineValid(x) ==
  /\ Get(x, "version") = N(CURRENT_SETTINGS_VERSION)
  /\ IsKnownEngine(GetPath(x, <<"containerEngine", "name">>))

\* C27: after a load(), updateFromCommandLine or save() that returned, the
\* settings of the process have version CURRENT_SETTINGS_VERSION and a known
\* engine name, and so has the file when the call wrote it.
C27_VersionAndEngineStayValid ==
  (/\ settingsCache # Undef
   /\ last.op \in {"load", "updateFromCommandLine", "save"}
   /\ last.ok) =>
    /\ VersionAndEngineValid(settingsCache)
    /\ last.wrote => VersionAndEngineValid(file.v)

=============================================================================
